---- MODULE Spec2Model ----
(***************************************************************************)
(* A model of the EDA dashboard script src/app.py.                         *)
(*                                                                         *)
(* The script is a Streamlit page: every widget event reruns the whole     *)
(* file top to bottom.  The state kept between reruns is the widget state  *)
(* (the uploaded file, the target selectbox, the top-K slider) and the     *)
(* st.cache_data store of get_correlation.  One action of the model is one *)
(* widget event together with the complete rerun it triggers; the rerun is *)
(* the operator Script, which follows the file line by line and records    *)
(* what the run produced before it ended, stopped or raised.               *)
(*                                                                         *)
(* A data frame is a sequence of columns [dtype, vals]; the label of a     *)
(* column is its position in the CSV header.  pd.read_csv with no dtype    *)
(* arguments (line 10) infers int64, uint64, float64, bool or object, so   *)
(* these are the dtypes the files carry.  Pearson coefficients are kept    *)
(* exact, as num / sqrt(den); plotting calls (plotly) are the rendering    *)
(* layer and are modelled as returning normally.                           *)
(***************************************************************************)
EXTENDS Integers, Sequences, FiniteSets, TLC

VARIABLES
    uploaded,   \* the data frame read from the file_uploader's file, or NoFile
    target,     \* the target selectbox: a column label, or None
    k,          \* the "Top K features" slider
    cache,      \* the st.cache_data store of get_correlation: key -> matrix
    origin,     \* history: for each key of cache, the file whose run stored it
    out         \* what the last run of the script produced

vars == <<uploaded, target, k, cache, origin, out>>

----------------------------------------------------------------------------
(* Bounds of the exploration *)

\* largest number of columns of the exhaustively generated files
MaxCols == 3
\* number of columns of the wide, all-numeric files
WideCols == 7
\* largest slider position explored besides the default
MaxK == 6
\* largest number of cache_data entries explored
MaxCache == 2

(* Program constants *)

\* st.slider("Top K features", min_value=5, max_value=20, value=10)
KMin == 5
KMax == 20
KDefault == 10
\* (corr_matrix > 0.8): the threshold 0.8 as ThresholdNum / ThresholdDen
ThresholdNum == 8
ThresholdDen == 10

----------------------------------------------------------------------------
(* Values *)

\* index=None of the selectbox, and the None a selectbox over no options returns
None == 0
\* file_uploader returned None
NoFile == << >>
\* a missing cell of a float64 column
NA == -1
\* st.cache_data with nothing stored
EmptyCache == [x \in {} |-> x]
\* get_correlation was not called in the run
NoMatrix == << >>

Col(d, v) == [dtype |-> d, vals |-> v]

Ramp == <<0, 1, 2, 3>>

\* the columns the exhaustively generated files are built from
Catalog ==
    { Col("int64", Ramp),
      Col("float64", <<NA, 1, 1, 2>>),
      Col("uint64", <<0, 0, 1, 1>>),
      Col("int64", <<1, 1, 1, 1>>),
      Col("object", <<0, 1, 0, 1>>),
      Col("bool", <<0, 0, 1, 0>>) }

RECURSIVE SeqsUpTo(_, _)
SeqsUpTo(S, n) ==
    IF n = 0 THEN { << >> }
    ELSE LET shorter == SeqsUpTo(S, n - 1)
         IN shorter \cup { Append(s, c) : s \in { t \in shorter : Len(t) = n - 1 }, c \in S }

NarrowFiles == SeqsUpTo(Catalog, MaxCols) \ { << >> }

\* a header of numeric columns that the wide files are cut from
Tape ==
    << Col("int64", Ramp),
       Col("float64", <<2, 1, 1, 0>>),
       Col("int64", <<0, 1, 3, 2>>),
       Col("float64", <<1, 1, 1, 1>>),
       Col("int64", <<0, 1, 1, 2>>),
       Col("float64", <<0, 1, 0, 1>>),
       Col("int64", Ramp),
       Col("float64", <<0, 0, 1, 1>>),
       Col("int64", <<3, 2, 0, 0>>),
       Col("uint64", <<0, 0, 1, 3>>),
       Col("float64", <<0, NA, 2, 3>>) >>

Window(start, step) ==
    [i \in 1..WideCols |-> Tape[((start - 1 + (i - 1) * step) % Len(Tape)) + 1]]

WideFiles == { Window(s, st) : s \in 1..Len(Tape), st \in {1, 3} }

EngineFiles == NarrowFiles \cup WideFiles

\* the CSV files of the interactive session
SessionFiles ==
    LET I == Col("int64", Ramp)
        J == Col("int64", <<0, 1, 1, 2>>)
        L == Col("int64", <<0, 0, 1, 1>>)
        F == Col("float64", <<NA, 1, 3, 2>>)
        U == Col("uint64", <<0, 0, 1, 3>>)
        S == Col("object", <<0, 1, 0, 1>>)
        T == Col("object", <<0, 0, 1, 1>>)
        B == Col("bool", <<0, 0, 1, 0>>)
    IN { <<I>>, <<S, I>>, <<S, T, I>>, <<B, I, J>>,
         <<I, J, F>>, <<I, J, F, S>>, <<I, L, F, S>>, <<U, I, J, S>> }

KValues == { kk \in KMin..KMax : kk <= MaxK } \cup { KDefault }

----------------------------------------------------------------------------
(* pandas: dtypes *)

\* df.columns
Columns(df) == 1..Len(df)

\* pd.api.types.is_numeric_dtype: np.number or np.bool_
is_numeric_dtype(d) == d \in {"int64", "uint64", "float64", "bool"}

\* the dtypes select_dtypes(include=["number"]) / include="number" keeps
Number == {"int64", "uint64", "float64"}

\* the dtypes select_dtypes(include=["object", "category"]) keeps
ObjectOrCategory == {"object", "category"}

\* the dtypes select_dtypes(include=["int64", "float64"]) keeps
Int64OrFloat64 == {"int64", "float64"}

RECURSIVE select_dtypes(_, _, _)
\* the labels i..Len(df) whose dtype is in include, in column order
select_dtypes(df, include, i) ==
    IF i > Len(df) THEN << >>
    ELSE IF df[i].dtype \in include THEN <<i>> \o select_dtypes(df, include, i + 1)
    ELSE select_dtypes(df, include, i + 1)

Range(s) == { s[i] : i \in 1..Len(s) }

\* Index.drop(label)
Drop(idx, label) == SelectSeq(idx, LAMBDA c : c # label)

all_num(df) == select_dtypes(df, Number, 1)
all_cat(df) == select_dtypes(df, ObjectOrCategory, 1)

NumFeaturesKeepTarget(df, tgt) == all_num(df)
num_features(df, tgt) ==
    IF tgt \in Range(all_num(df)) THEN Drop(all_num(df), tgt) ELSE all_num(df)

cat_features(df, tgt) ==
    IF tgt \in Range(all_cat(df)) THEN Drop(all_cat(df), tgt) ELSE all_cat(df)

----------------------------------------------------------------------------
(* pandas: DataFrame.corr() (Pearson, pairwise complete observations) *)

\* a coefficient is num / sqrt(den); den = 0 is the undefined coefficient
NaN == [num |-> 0, den |-> 0]
IsNaN(c) == c.den = 0

RECURSIVE Sigma(_)
Sigma(s) == IF s = << >> THEN 0 ELSE Head(s) + Sigma(Tail(s))

Pearson(x, y) ==
    LET ok(i) == x[i] # NA /\ y[i] # NA
        over(f(_)) == Sigma([i \in 1..Len(x) |-> IF ok(i) THEN f(i) ELSE 0])
        n   == over(LAMBDA i : 1)
        sx  == over(LAMBDA i : x[i])
        sy  == over(LAMBDA i : y[i])
        sxy == n * over(LAMBDA i : x[i] * y[i]) - sx * sy
        sxx == n * over(LAMBDA i : x[i] * x[i]) - sx * sx
        syy == n * over(LAMBDA i : y[i] * y[i]) - sy * sy
    IN IF sxx * syy = 0 THEN NaN ELSE [num |-> sxy, den |-> sxx * syy]

\* the signed square of a coefficient, over den: monotone in the coefficient
SignedSq(c) == IF c.num >= 0 THEN c.num * c.num ELSE -(c.num * c.num)

\* comparisons of floats: every comparison with NaN is False
Gt(a, b) == ~IsNaN(a) /\ ~IsNaN(b) /\ SignedSq(a) * b.den > SignedSq(b) * a.den
Ge(a, b) == ~IsNaN(a) /\ ~IsNaN(b) /\ SignedSq(a) * b.den >= SignedSq(b) * a.den

\* DataFrame.abs()
Abs(c) == [num |-> IF c.num >= 0 THEN c.num ELSE -c.num, den |-> c.den]

\* c > 0.8
GtThreshold(c) ==
    /\ ~IsNaN(c)
    /\ c.num > 0
    /\ c.num * c.num * ThresholdDen * ThresholdDen > ThresholdNum * ThresholdNum * c.den

\* c < 1.0
LtOne(c) == ~IsNaN(c) /\ (c.num < 0 \/ c.num * c.num < c.den)

\* df[labels]: the sub-table of the named columns, in the order given
SubTable(df, labels) ==
    [i \in 1..Len(labels) |->
        [name |-> labels[i], dtype |-> df[labels[i]].dtype, vals |-> df[labels[i]].vals]]

\* sub.corr(): the square matrix over the sub-table's labels
df_corr(sub) ==
    [p \in { <<sub[i].name, sub[j].name>> : i \in 1..Len(sub), j \in 1..Len(sub) } |->
        LET a == CHOOSE i \in 1..Len(sub) : sub[i].name = p[1]
            b == CHOOSE j \in 1..Len(sub) : sub[j].name = p[2]
        IN Pearson(sub[a].vals, sub[b].vals)]

----------------------------------------------------------------------------
(* pandas: Series.sort_values(ascending=False), NaN last, ties in input order *)

RECURSIVE InsertDesc(_, _)
\* e goes after every entry that is not smaller than it
InsertDesc(e, s) ==
    IF s = << >> THEN <<e>>
    ELSE IF Ge(Head(s).coef, e.coef) THEN <<Head(s)>> \o InsertDesc(e, Tail(s))
    ELSE <<e>> \o s

RECURSIVE SortDefined(_, _)
SortDefined(s, acc) ==
    IF s = << >> THEN acc ELSE SortDefined(Tail(s), InsertDesc(Head(s), acc))

sort_values(s) ==
    SortDefined(SelectSeq(s, LAMBDA e : ~IsNaN(e.coef)), << >>)
        \o SelectSeq(s, LAMBDA e : IsNaN(e.coef))

\* Series.head(n)
head(s, n) == SubSeq(s, 1, IF n < Len(s) THEN n ELSE Len(s))

----------------------------------------------------------------------------
(* Tab 4: the top-K list and the multicollinearity report *)

\* the row [target] of select_dtypes(["int64","float64"]).corr(), target dropped
TargetRow(df, tgt) ==
    LET idx == Drop(select_dtypes(df, Int64OrFloat64, 1), tgt)
    IN [i \in 1..Len(idx) |->
           [feature |-> idx[i], coef |-> Pearson(df[idx[i]].vals, df[tgt].vals)]]

TopKByMagnitude(df, tgt, kk) ==
    LET row == TargetRow(df, tgt)
        byAbs == sort_values([i \in 1..Len(row) |->
                     [feature |-> row[i].feature, coef |-> Abs(row[i].coef)]])
    IN head([i \in 1..Len(byAbs) |->
                 [feature |-> byAbs[i].feature,
                  coef |-> Pearson(df[byAbs[i].feature].vals, df[tgt].vals)]], kk)
TopK(df, tgt, kk) == head(sort_values(TargetRow(df, tgt)), kk)

RECURSIVE Stack(_, _, _, _)
\* DataFrame.stack(): row by row, the masked (NaN) cells dropped
Stack(m, labels, i, j) ==
    IF i > Len(labels) THEN << >>
    ELSE IF j > Len(labels) THEN Stack(m, labels, i + 1, 1)
    ELSE LET c == m[<<labels[i], labels[j]>>]
         IN (IF IsNaN(c) THEN << >> ELSE << [a |-> labels[i], b |-> labels[j], coef |-> c] >>)
                \o Stack(m, labels, i, j + 1)

\* corr_matrix.where((corr_matrix > 0.8) & (corr_matrix < 1.0)): the other cells
\* become NaN
Where(m) == [p \in DOMAIN m |-> IF GtThreshold(m[p]) /\ LtOne(m[p]) THEN m[p] ELSE NaN]

HighCorrPairsNoUpperBound(matrix, labels) ==
    LET corr_matrix == [p \in DOMAIN matrix |-> Abs(matrix[p])]
        kept == [p \in DOMAIN matrix |->
                    IF GtThreshold(corr_matrix[p]) THEN corr_matrix[p] ELSE NaN]
    IN sort_values(Stack(kept, labels, 1, 1))
high_corr_pairs(matrix, labels) ==
    LET corr_matrix == [p \in DOMAIN matrix |-> Abs(matrix[p])]
    IN sort_values(Stack(Where(corr_matrix), labels, 1, 1))

----------------------------------------------------------------------------
(* st.cache_data around get_correlation *)

\* what the cache compares to decide that a call repeats an earlier one
CacheKeyLabelsOnly(sub) == [i \in 1..Len(sub) |-> [name |-> sub[i].name, dtype |-> sub[i].dtype]]
CacheKey(sub) == sub

\* a call that found nothing stored: the value is computed and stored under key
Miss(key, value, cch) ==
    [hit |-> FALSE, value |-> value, store |-> cch @@ (key :> value)]

\* the decorated function called on sub under the store cch: whether the call was
\* answered from the store, the value returned, and the store after the call
get_correlation(sub, cch) ==
    IF CacheKey(sub) \in DOMAIN cch
    THEN [hit |-> TRUE, value |-> cch[CacheKey(sub)], store |-> cch]
    ELSE Miss(CacheKey(sub), df_corr(sub), cch)

----------------------------------------------------------------------------
(* One run of the script *)

\* what a run has produced when it ends; the run starts from Blank
Blank ==
    [ warning |-> "none", error |-> "none", branch |-> "none", sections |-> << >>,
      is_target_numeric |-> FALSE, num_features |-> << >>, cat_features |-> << >>,
      slider |-> FALSE, ranked |-> FALSE, corr |-> << >>,
      info |-> FALSE, hit |-> FALSE, matrix |-> NoMatrix,
      reported |-> FALSE, high_corr_pairs |-> << >> ]

\* the state before the first run of a page
Pending == [Blank EXCEPT !.warning = "pending"]

NumericSections ==
    << "Overview", "Distributions", "Relationships", "TopCorrelated",
       "Redundancy", "Multicollinearity", "Categorical" >>

CategoricalSections ==
    << "Overview", "ClassDistribution", "NumericSeparation", "CategoricalVsTarget" >>

\* lines 182-190: the report built from the matrix got.value; r is the run so far
Report(r, got) ==
    [out |-> [r EXCEPT !.hit = got.hit,
                       !.matrix = got.value,
                       !.reported = TRUE,
                       !.high_corr_pairs = high_corr_pairs(got.value, r.num_features),
                       !.sections = @ \o <<"Multicollinearity">>],
     cache |-> got.store]

\* lines 175-190: "Potential Multicollinearity Risks"
Multicollinearity(df, cch, r) ==
    IF Len(r.num_features) < 2
    THEN [out |-> [r EXCEPT !.info = TRUE, !.sections = @ \o <<"Multicollinearity">>],
          cache |-> cch]
    ELSE Report(r, get_correlation(SubTable(df, r.num_features), cch))

\* lines 132-190: the top-K list, the redundancy check, the multicollinearity
\* report; r is the run so far, the result is [out, cache]
Tab4(df, tgt, kk, cch, r) ==
    IF df[tgt].dtype \notin Int64OrFloat64
    THEN \* .corr()[target]: the target is no column of the int64/float64 frame
         [out |-> [r EXCEPT !.slider = TRUE, !.error = "KeyError"], cache |-> cch]
    ELSE Multicollinearity(df, cch,
             [r EXCEPT !.slider = TRUE,
                       !.ranked = TRUE,
                       !.corr = TopK(df, tgt, kk),
                       !.sections = @ \o <<"TopCorrelated", "Redundancy">>])

\* lines 194-224, reached unless the run has raised: groupby(cat_feature) with the
\* None of a selectbox over no options raises TypeError
Tab5(t4) ==
    IF t4.out.error # "none" THEN t4
    ELSE IF t4.out.cat_features = << >>
    THEN [t4 EXCEPT !.out.error = "TypeError"]
    ELSE [t4 EXCEPT !.out.sections = @ \o <<"Categorical">>]

\* lines 42-224
NumericBranch(df, tgt, kk, cch, r) ==
    Tab5(Tab4(df, tgt, kk, cch,
              [r EXCEPT !.branch = "numeric",
                        !.sections = <<"Overview", "Distributions", "Relationships">>]))

\* lines 272-303, after the overview and the class distribution
ClassBehaviour(df, tgt, r) ==
    IF tgt \notin Range(all_cat(df))
    THEN \* Index.drop(target) of a label that is not there
         [r EXCEPT !.error = "KeyError"]
    ELSE IF Drop(all_cat(df), tgt) = << >>
    THEN \* df[cat_feature] with the None of a selectbox over no options
         [r EXCEPT !.error = "KeyError"]
    ELSE [r EXCEPT !.sections = @ \o <<"CategoricalVsTarget">>]

\* lines 226-303
CategoricalBranch(df, tgt, r) ==
    ClassBehaviour(df, tgt,
        [r EXCEPT !.branch = "categorical",
                  !.sections = <<"Overview", "ClassDistribution", "NumericSeparation">>])

\* lines 42-303: r holds the classification of lines 22-31
Tabs(df, tgt, kk, cch, r) ==
    IF r.is_target_numeric
    THEN NumericBranch(df, tgt, kk, cch, r)
    ELSE [out |-> CategoricalBranch(df, tgt, r), cache |-> cch]

\* the whole file, lines 7-303: [out, cache]
Script(file, tgt, kk, cch) ==
    IF file = NoFile
    THEN [out |-> [Blank EXCEPT !.warning = "upload"], cache |-> cch]
    ELSE IF tgt = None
    THEN [out |-> [Blank EXCEPT !.warning = "target"], cache |-> cch]
    ELSE IF tgt \notin Columns(file)
    THEN \* df[target] at line 22 with a label that is no column
         [out |-> [Blank EXCEPT !.error = "KeyError"], cache |-> cch]
    ELSE Tabs(file, tgt, kk, cch,
              [Blank EXCEPT !.is_target_numeric = is_numeric_dtype(file[tgt].dtype),
                            !.num_features = num_features(file, tgt),
                            !.cat_features = cat_features(file, tgt)])

----------------------------------------------------------------------------
(* Widgets *)

\* st.sidebar.selectbox(..., options=df.columns, index=None): the selection is kept
\* across reruns while the widget is drawn with the same options
SelectboxKeepsValue(oldOptions, newOptions, value) == value
Selectbox(oldOptions, newOptions, value) ==
    IF oldOptions = newOptions THEN value ELSE None

\* a widget event: the widgets hold (file, tgt, kk) and the script reruns.  A
\* widget the run did not draw loses its state (the slider falls back to its
\* default); runs that would grow the store beyond MaxCache are not explored.
Run(file, tgt, kk) ==
    \E r \in { Script(file, tgt, kk, cache) } :
        /\ Cardinality(DOMAIN r.cache) <= MaxCache
        /\ uploaded' = file
        /\ target' = tgt
        /\ k' = IF r.out.slider THEN kk ELSE KDefault
        /\ cache' = r.cache
        /\ origin' = IF DOMAIN r.cache = DOMAIN cache THEN origin
                     ELSE origin @@ [key \in DOMAIN r.cache \ DOMAIN cache |-> file]
        /\ out' = r.out

Upload(f) ==
    /\ f # NoFile
    /\ Run(f, Selectbox(Columns(uploaded), Columns(f), target), k)

RemoveFile ==
    /\ uploaded # NoFile
    /\ Run(NoFile, None, k)

SelectTarget ==
    /\ uploaded # NoFile
    /\ \E t \in Columns(uploaded) :
          /\ t # target
          /\ Run(uploaded, t, k)

ClearTarget ==
    /\ uploaded # NoFile
    /\ target # None
    /\ Run(uploaded, None, k)

SetK(kk) ==
    /\ out.slider
    /\ kk # k
    /\ Run(uploaded, target, kk)

Rerun ==
    /\ Run(uploaded, target, k)

----------------------------------------------------------------------------
(* Specifications *)

\* an interactive session over SessionFiles, from the page's first run
Init ==
    /\ uploaded = NoFile
    /\ target = None
    /\ k = KDefault
    /\ cache = EmptyCache
    /\ origin = EmptyCache
    /\ out = [Blank EXCEPT !.warning = "upload"]

Next ==
    \/ \E f \in SessionFiles : Upload(f)
    \/ RemoveFile
    \/ SelectTarget
    \/ ClearTarget
    \/ \E kk \in KValues : SetK(kk)
    \/ Rerun

Spec == Init /\ [][Next]_vars

\* the script applied to every file, target and slider position of EngineFiles
InitEngine ==
    /\ uploaded \in EngineFiles
    /\ target \in Columns(uploaded)
    /\ k \in KValues
    /\ cache = EmptyCache
    /\ origin = EmptyCache
    /\ out = Pending

NextEngine == Rerun

SpecEngine == InitEngine /\ [][NextEngine]_vars

----------------------------------------------------------------------------
(* Properties *)

\* the last run got past the upload and target gates
Ran == out.warning = "none"

Dtype(c) == uploaded[c].dtype
Vals(c) == uploaded[c].vals
IsStrictlyIncreasing(s) == \A i, j \in 1..Len(s) : i < j => s[i] < s[j]
MinOf(a, b) == IF a < b THEN a ELSE b

\* C1: after target selection num_features and cat_features are disjoint, neither
\* holds the target, num_features is exactly the numeric-kind columns other than
\* the target, cat_features exactly the string/category-kind columns other than
\* the target, both in original column order.
C1_Partition ==
    Ran =>
        LET nf == out.num_features
            cf == out.cat_features
        IN /\ Range(nf) \cap Range(cf) = {}
           /\ target \notin Range(nf) \cup Range(cf)
           /\ \A c \in Columns(uploaded) :
                 /\ c \in Range(nf) <=> (c # target /\ Dtype(c) \in {"int64", "uint64", "float64"})
                 /\ c \in Range(cf) <=> (c # target /\ Dtype(c) \in {"object", "category"})
           /\ Range(nf) \cup Range(cf) \subseteq Columns(uploaded)
           /\ IsStrictlyIncreasing(nf)
           /\ IsStrictlyIncreasing(cf)

\* a numeric target chosen from a file that also has a numeric feature and a
\* string feature
C1_Witness ==
    /\ Ran
    /\ Dtype(target) \in {"int64", "float64"}
    /\ out.num_features # << >>
    /\ out.cat_features # << >>

\* C2: the target is classified numeric iff its kind is in the integer/float
\* family, the numeric branch is taken exactly when the target is a column that
\* select_dtypes counts as numeric, and any other kind (string, boolean) takes
\* the categorical branch.
C2_TargetKind ==
    Ran =>
        /\ out.is_target_numeric <=> Dtype(target) \in {"int64", "uint64", "float64"}
        /\ out.branch = "numeric" <=> target \in Range(all_num(uploaded))
        /\ out.branch = "categorical" <=> target \notin Range(all_num(uploaded))

\* C3: the multicollinearity report never holds both the entry (a,b) and the
\* entry (b,a) of two distinct features.
C3_PairOnce ==
    \A i, j \in 1..Len(out.high_corr_pairs) :
        LET e == out.high_corr_pairs[i]
            f == out.high_corr_pairs[j]
        IN e.a # e.b => ~(f.a = e.b /\ f.b = e.a)

\* C4: every entry of the multicollinearity report has an absolute coefficient
\* strictly above 0.8 and strictly below 1.0, the entries descend by coefficient,
\* no entry is a self-pair, and no entry pairs two identical columns.
C4_Report ==
    LET rep == out.high_corr_pairs
    IN /\ \A i \in 1..Len(rep) :
             /\ rep[i].coef.den > 0
             /\ rep[i].coef.num > 0
             /\ 100 * rep[i].coef.num * rep[i].coef.num > 64 * rep[i].coef.den
             /\ rep[i].coef.num * rep[i].coef.num < rep[i].coef.den
             /\ rep[i].a # rep[i].b
             /\ Vals(rep[i].a) # Vals(rep[i].b)
       /\ \A i, j \in 1..Len(rep) : i < j => Ge(rep[i].coef, rep[j].coef)

\* a report with entries of different strength, over features two of which are
\* identical columns
C4_Witness ==
    /\ out.reported
    /\ \E i, j \in 1..Len(out.high_corr_pairs) :
          Gt(out.high_corr_pairs[i].coef, out.high_corr_pairs[j].coef)
    /\ \E a, b \in Range(out.num_features) : a # b /\ Vals(a) = Vals(b)

\* C5: with a numeric target the top-K list has length min(k, |num_features|),
\* never holds the target, holds no feature twice, and for k >= |num_features|
\* holds every member of num_features.
C5_TopK ==
    (Ran /\ out.is_target_numeric) =>
        LET listed == [i \in 1..Len(out.corr) |-> out.corr[i].feature]
        IN /\ Len(listed) = MinOf(k, Len(out.num_features))
           /\ target \notin Range(listed)
           /\ Cardinality(Range(listed)) = Len(listed)
           /\ k >= Len(out.num_features) => Range(listed) = Range(out.num_features)

\* the int64/float64 columns other than the target: the rows of the top-K frame
RankedColumns == { c \in Columns(uploaded) : c # target /\ Dtype(c) \in {"int64", "float64"} }

\* C6: the top-K list descends by signed coefficient, undefined coefficients come
\* after every defined one and raise nothing, and the list is the first k entries
\* of that order: no column left out ranks above a column kept.
C6_Order ==
    /\ (Ran /\ Dtype(target) \in {"int64", "float64"}) => out.ranked
    /\ out.ranked =>
          LET c == out.corr
              listed == { c[i].feature : i \in 1..Len(c) }
              r(x) == Pearson(Vals(x), Vals(target))
          IN /\ \A i \in 1..Len(c) : c[i].coef = r(c[i].feature)
             /\ \A i, j \in 1..Len(c) : i < j =>
                   /\ IsNaN(c[i].coef) => IsNaN(c[j].coef)
                   /\ IsNaN(c[j].coef) \/ Ge(c[i].coef, c[j].coef)
             /\ listed \subseteq RankedColumns
             /\ Len(c) = MinOf(k, Cardinality(RankedColumns))
             /\ \A x \in RankedColumns \ listed : \A y \in listed :
                   /\ ~Gt(r(x), r(y))
                   /\ IsNaN(r(y)) => IsNaN(r(x))

\* a truncated list that keeps a weak positive coefficient and leaves out a
\* stronger negative one
C6_Witness ==
    /\ out.ranked
    /\ Len(out.corr) = k
    /\ \E x \in RankedColumns : \E i \in 1..Len(out.corr) :
          LET rx == Pearson(Vals(x), Vals(target))
              ry == out.corr[i].coef
          IN /\ \A j \in 1..Len(out.corr) : out.corr[j].feature # x
             /\ rx.num < 0 /\ ry.num > 0
             /\ Gt(Abs(rx), Abs(ry))

\* C7: no analysis section runs unless a file is uploaded and a target of that
\* file is selected; a run without either stops with its warning before any
\* section, and a selected target is always a column of the current file.
C7_Gating ==
    /\ out.sections # << >> => (uploaded # NoFile /\ target \in Columns(uploaded))
    /\ uploaded = NoFile => (out.warning = "upload" /\ out.sections = << >> /\ target = None)
    /\ (uploaded # NoFile /\ target = None) => (out.warning = "target" /\ out.sections = << >>)
    /\ target # None => target \in Columns(uploaded)
    /\ out.error = "none" \/ out.sections # << >>

\* a run that stopped at the target warning, in a session whose earlier run
\* analysed a file as far as the correlation matrix
C7_Witness ==
    /\ uploaded # NoFile
    /\ target = None
    /\ out.warning = "target"
    /\ cache # EmptyCache

\* C8: with a validly selected target a run completes every section of its
\* branch without raising.
C8_RunCompletes ==
    (uploaded # NoFile /\ target # None) =>
        /\ out.error = "none"
        /\ out.branch = "numeric" => out.sections = NumericSections
        /\ out.branch = "categorical" => out.sections = CategoricalSections

\* C9: with a numeric target the correlation matrix and the pair report are
\* computed iff num_features has at least 2 members, and with 0 or 1 the run
\* gives the not-enough-features signal instead.
C9_Multicollinearity ==
    (Ran /\ out.is_target_numeric) =>
        /\ out.reported <=> Len(out.num_features) >= 2
        /\ out.matrix # NoMatrix <=> Len(out.num_features) >= 2
        /\ out.info <=> Len(out.num_features) < 2

====
